---------------------------- MODULE Spec2Model ----------------------------
(***************************************************************************)
(* Model of the CVD-risk-scores library: the Framingham subject schema     *)
(* (modules/templates.py), the Framingham score of one subject and the     *)
(* row-wise application of a risk model to tabular data                    *)
(* (modules/risk_models.py), and the synthetic Framingham population       *)
(* (modules/utils.py).                                                     *)
(*                                                                         *)
(* Representation.                                                         *)
(*  - A Python value held in a table cell is a record [ty, n, s]: ty is    *)
(*    the Python type, n the number (an int as itself, a float in          *)
(*    millionths, a bool as 0/1) and s the characters of a str (of a       *)
(*    float, the name of the value when it is inf, -inf or nan).           *)
(*  - Real numbers computed by the score are fixed-point integers in       *)
(*    units of 1/FP (six decimal digits); every product is split into      *)
(*    three-digit limbs so that no intermediate leaves 32 bits.            *)
(***************************************************************************)
EXTENDS Integers, Sequences, FiniteSets, TLC

VARIABLES
    pc,             \* "idle" | "called" | "done": position of the caller
    underlying,     \* the row values the caller's data was made from
    shape,          \* "list" | "ndarray" | "DataFrame": the form of `data`
    layout,         \* column layout of the caller's DataFrame
    data,           \* the caller's `data` argument
    columns_map,    \* the caller's `columns_map` argument
    result,         \* what forward returned or raised
    baseline_risk,  \* FraminghamRiskScore.baseline_risk
    mean_risk,      \* FraminghamRiskScore.mean_risk
    betas,          \* FraminghamRiskScore.betas
    spc,            \* "off" | "raw" | "validated" | "scored": one subject's path
    raw,            \* the keyword arguments given to the subject template
    built,          \* outcome of FraminghamSubject(**raw)
    scored,         \* the score of the subject built
    gpc,            \* "idle" | "loop" | "returned": position in generate_population
    n_sub,          \* the n_sub argument of generate_population
    todo,           \* the items of pop_stats.stats the for loop has yet to take
    population      \* the sex column of the `population` frame, one entry per row

vars == <<pc, underlying, shape, layout, data, columns_map, result,
          baseline_risk, mean_risk, betas, spc, raw, built, scored,
          gpc, n_sub, todo, population>>

\* the variables of generate_population
gen == <<gpc, n_sub, todo, population>>

---------------------------------------------------------------------------
(* Python values *)

PyStr(s)   == [ty |-> "str",   n |-> 0, s |-> s]
PyInt(n)   == [ty |-> "int",   n |-> n, s |-> <<>>]
PyFloat(t) == [ty |-> "float", n |-> t, s |-> <<>>]
PyBool(b)  == [ty |-> "bool",  n |-> IF b THEN 1 ELSE 0, s |-> <<>>]

\* a finite float holds its value in millionths; the floats that are not
\* finite carry their name in s: inf (n = 1), -inf (n = -1) and nan
Unit == 1000000
PyInf(sgn) == [ty |-> "float", n |-> sgn, s |-> <<"i", "n", "f">>]
PyNaN      == [ty |-> "float", n |-> 0, s |-> <<"n", "a", "n">>]
isfinite(c) == c.s = <<>>
isnan(c)    == c = PyNaN

DigitChars == <<"0", "1", "2", "3", "4", "5", "6", "7", "8", "9">>
UpperChars == <<"A", "B", "C", "D", "E", "F", "G", "H", "I", "J", "K", "L", "M",
                "N", "O", "P", "Q", "R", "S", "T", "U", "V", "W", "X", "Y", "Z">>
LowerChars == <<"a", "b", "c", "d", "e", "f", "g", "h", "i", "j", "k", "l", "m",
                "n", "o", "p", "q", "r", "s", "t", "u", "v", "w", "x", "y", "z">>

IsDigit(c) == \E i \in DOMAIN DigitChars : DigitChars[i] = c
DigitVal(c) == (CHOOSE i \in DOMAIN DigitChars : DigitChars[i] = c) - 1

Abs(x) == IF x < 0 THEN -x ELSE x

\* A character of a str is a string of one character; a character that
\* cannot be written so is named by its Python escape in lower case:
\* "\\x0b" is the vertical tab, "\\x60" the grave accent, "\\xa0" the
\* no-break space, "\\u0661" the Arabic-Indic digit one.

\* str.lower() of one character. Beyond ASCII two characters have a lower
\* case with an ASCII letter in it: the Kelvin sign (k) and the dotted
\* capital I (i and a combining dot). Any other character beyond ASCII is
\* kept: its lower case is beyond ASCII as well.
lower_char(c) ==
    IF \E j \in DOMAIN UpperChars : UpperChars[j] = c
    THEN <<LowerChars[CHOOSE j \in DOMAIN UpperChars : UpperChars[j] = c]>>
    ELSE IF c = "\\u212a" THEN <<"k">>
    ELSE IF c = "\\u0130" THEN <<"i", "\\u0307">>
    ELSE <<c>>

\* the number of characters among the first i of s that have a lower case
\* of two characters
dotted(s, i) == Cardinality({k \in 1..i : Len(lower_char(s[k])) = 2})

\* str.lower() on the characters of a str: the lower cases of its
\* characters, one after the other
lower(s) ==
    IF dotted(s, Len(s)) = 0 THEN [i \in DOMAIN s |-> lower_char(s[i])[1]]
    ELSE [j \in 1..(Len(s) + dotted(s, Len(s))) |->
             LET i == CHOOSE i \in DOMAIN s :
                          i + dotted(s, i - 1) <= j /\ j <= i + dotted(s, i)
             IN  lower_char(s[i])[j - (i + dotted(s, i - 1)) + 1]]

\* decimal digits of a natural number
RECURSIVE NatToChars(_)
NatToChars(n) ==
    IF n < 10 THEN <<DigitChars[n + 1]>>
    ELSE Append(NatToChars(n \div 10), DigitChars[(n % 10) + 1])

\* str(int)
IntToChars(n) == IF n < 0 THEN <<"-">> \o NatToChars(-n) ELSE NatToChars(n)

\* the digits of n without its trailing zeros (n > 0)
RECURSIVE StripZeros(_)
StripZeros(n) == IF n % 10 = 0 THEN StripZeros(n \div 10) ELSE n

\* the six fractional digits of f millionths, trailing zeros dropped but for
\* the first digit
RECURSIVE FracChars(_, _)
FracChars(f, width) ==
    IF width = 1 \/ (f % 10 # 0)
    THEN (IF width > Len(NatToChars(f))
          THEN [i \in 1..(width - Len(NatToChars(f))) |-> "0"] ELSE <<>>) \o NatToChars(f)
    ELSE FracChars(f \div 10, width - 1)

\* repr(float): the shortest text that reads back as the float. A finite
\* float of magnitude below 1e-4 is written with an exponent (5e-05),
\* any other with its integer part, a point and its fractional digits
\* (146.0, 30.5, 0.05).
FloatToChars(c) ==
    LET t    == Abs(c.n)
        sign == IF c.n < 0 THEN <<"-">> ELSE <<>>
        m    == NatToChars(StripZeros(t))
        e    == IF t < 10 THEN 6 ELSE 5
    IN  CASE isnan(c)      -> c.s
          [] ~isfinite(c)  -> sign \o c.s
          [] t > 0 /\ t < 100 ->
                sign \o <<m[1]>> \o (IF Len(m) > 1 THEN <<".">> \o Tail(m) ELSE <<>>)
                     \o <<"e", "-", "0", DigitChars[e + 1]>>
          [] OTHER ->
                sign \o NatToChars(t \div Unit) \o <<".">> \o FracChars(t % Unit, 6)

\* the text numpy stores for a value in an array of unicode dtype
np_str(c) ==
    CASE c.ty = "str"   -> c
      [] c.ty = "int"   -> PyStr(IntToChars(c.n))
      [] c.ty = "float" -> PyStr(FloatToChars(c))
      [] c.ty = "bool"  -> PyStr(IF c.n = 1 THEN <<"T", "r", "u", "e">>
                                             ELSE <<"F", "a", "l", "s", "e">>)

\* value of a sequence of digits
RECURSIVE DigitsVal(_)
DigitsVal(ds) ==
    IF ds = <<>> THEN 0
    ELSE DigitsVal(SubSeq(ds, 1, Len(ds) - 1)) * 10 + DigitVal(ds[Len(ds)])

\* the 128 characters of ASCII
AsciiChars ==
    {"\\x00", "\\x01", "\\x02", "\\x03", "\\x04", "\\x05", "\\x06", "\\x07",
     "\\x08", "\t", "\n", "\\x0b", "\f", "\r", "\\x0e", "\\x0f", "\\x10",
     "\\x11", "\\x12", "\\x13", "\\x14", "\\x15", "\\x16", "\\x17", "\\x18",
     "\\x19", "\\x1a", "\\x1b", "\\x1c", "\\x1d", "\\x1e", "\\x1f", " ", "!",
     "\"", "#", "$", "%", "&", "'", "(", ")", "*", "+", ",", "-", ".", "/",
     "0", "1", "2", "3", "4", "5", "6", "7", "8", "9", ":", ";", "<", "=",
     ">", "?", "@", "A", "B", "C", "D", "E", "F", "G", "H", "I", "J", "K",
     "L", "M", "N", "O", "P", "Q", "R", "S", "T", "U", "V", "W", "X", "Y",
     "Z", "[", "\\", "]", "^", "_", "\\x60", "a", "b", "c", "d", "e", "f", "g",
     "h", "i", "j", "k", "l", "m", "n", "o", "p", "q", "r", "s", "t", "u",
     "v", "w", "x", "y", "z", "{", "|", "}", "~", "\\x7f"}

\* the interpreters the package supports (python_requires >= 3.7, < 3.10)
PythonVersions == {"3.7", "3.8", "3.9"}

\* float(str) first writes the text in ASCII: a space beyond ASCII becomes
\* a blank, a decimal digit of any script its ASCII digit and any other
\* character beyond ASCII a question mark. The decimal digits are those of
\* the Unicode version of the interpreter: 11.0 for Python 3.7, 12.1 for
\* 3.8 (Nyiakeng Puachue Hmong and Wancho digits added) and 13.0 for 3.9
\* (Dives Akuru and segmented digits added).
UnicodeSpaces ==
    {"\\x85", "\\xa0", "\\u1680", "\\u2000", "\\u2001", "\\u2002", "\\u2003",
     "\\u2004", "\\u2005", "\\u2006", "\\u2007", "\\u2008", "\\u2009",
     "\\u200a", "\\u2028", "\\u2029", "\\u202f", "\\u205f", "\\u3000"}

\* the decimal digits beyond ASCII of Unicode 11.0, by value
UnicodeDigits ==
    <<{"\\u0660", "\\u06f0", "\\u07c0", "\\u0966", "\\u09e6", "\\u0a66",
       "\\u0ae6", "\\u0b66", "\\u0be6", "\\u0c66", "\\u0ce6", "\\u0d66",
       "\\u0de6", "\\u0e50", "\\u0ed0", "\\u0f20", "\\u1040", "\\u1090",
       "\\u17e0", "\\u1810", "\\u1946", "\\u19d0", "\\u1a80", "\\u1a90",
       "\\u1b50", "\\u1bb0", "\\u1c40", "\\u1c50", "\\ua620", "\\ua8d0",
       "\\ua900", "\\ua9d0", "\\ua9f0", "\\uaa50", "\\uabf0", "\\uff10",
       "\\U000104a0", "\\U00010d30", "\\U00011066", "\\U000110f0",
       "\\U00011136", "\\U000111d0", "\\U000112f0", "\\U00011450",
       "\\U000114d0", "\\U00011650", "\\U000116c0", "\\U00011730",
       "\\U000118e0", "\\U00011c50", "\\U00011d50", "\\U00011da0",
       "\\U00016a60", "\\U00016b50", "\\U0001d7ce", "\\U0001d7d8",
       "\\U0001d7e2", "\\U0001d7ec", "\\U0001d7f6", "\\U0001e950"},
      {"\\u0661", "\\u06f1", "\\u07c1", "\\u0967", "\\u09e7", "\\u0a67",
       "\\u0ae7", "\\u0b67", "\\u0be7", "\\u0c67", "\\u0ce7", "\\u0d67",
       "\\u0de7", "\\u0e51", "\\u0ed1", "\\u0f21", "\\u1041", "\\u1091",
       "\\u17e1", "\\u1811", "\\u1947", "\\u19d1", "\\u1a81", "\\u1a91",
       "\\u1b51", "\\u1bb1", "\\u1c41", "\\u1c51", "\\ua621", "\\ua8d1",
       "\\ua901", "\\ua9d1", "\\ua9f1", "\\uaa51", "\\uabf1", "\\uff11",
       "\\U000104a1", "\\U00010d31", "\\U00011067", "\\U000110f1",
       "\\U00011137", "\\U000111d1", "\\U000112f1", "\\U00011451",
       "\\U000114d1", "\\U00011651", "\\U000116c1", "\\U00011731",
       "\\U000118e1", "\\U00011c51", "\\U00011d51", "\\U00011da1",
       "\\U00016a61", "\\U00016b51", "\\U0001d7cf", "\\U0001d7d9",
       "\\U0001d7e3", "\\U0001d7ed", "\\U0001d7f7", "\\U0001e951"},
      {"\\u0662", "\\u06f2", "\\u07c2", "\\u0968", "\\u09e8", "\\u0a68",
       "\\u0ae8", "\\u0b68", "\\u0be8", "\\u0c68", "\\u0ce8", "\\u0d68",
       "\\u0de8", "\\u0e52", "\\u0ed2", "\\u0f22", "\\u1042", "\\u1092",
       "\\u17e2", "\\u1812", "\\u1948", "\\u19d2", "\\u1a82", "\\u1a92",
       "\\u1b52", "\\u1bb2", "\\u1c42", "\\u1c52", "\\ua622", "\\ua8d2",
       "\\ua902", "\\ua9d2", "\\ua9f2", "\\uaa52", "\\uabf2", "\\uff12",
       "\\U000104a2", "\\U00010d32", "\\U00011068", "\\U000110f2",
       "\\U00011138", "\\U000111d2", "\\U000112f2", "\\U00011452",
       "\\U000114d2", "\\U00011652", "\\U000116c2", "\\U00011732",
       "\\U000118e2", "\\U00011c52", "\\U00011d52", "\\U00011da2",
       "\\U00016a62", "\\U00016b52", "\\U0001d7d0", "\\U0001d7da",
       "\\U0001d7e4", "\\U0001d7ee", "\\U0001d7f8", "\\U0001e952"},
      {"\\u0663", "\\u06f3", "\\u07c3", "\\u0969", "\\u09e9", "\\u0a69",
       "\\u0ae9", "\\u0b69", "\\u0be9", "\\u0c69", "\\u0ce9", "\\u0d69",
       "\\u0de9", "\\u0e53", "\\u0ed3", "\\u0f23", "\\u1043", "\\u1093",
       "\\u17e3", "\\u1813", "\\u1949", "\\u19d3", "\\u1a83", "\\u1a93",
       "\\u1b53", "\\u1bb3", "\\u1c43", "\\u1c53", "\\ua623", "\\ua8d3",
       "\\ua903", "\\ua9d3", "\\ua9f3", "\\uaa53", "\\uabf3", "\\uff13",
       "\\U000104a3", "\\U00010d33", "\\U00011069", "\\U000110f3",
       "\\U00011139", "\\U000111d3", "\\U000112f3", "\\U00011453",
       "\\U000114d3", "\\U00011653", "\\U000116c3", "\\U00011733",
       "\\U000118e3", "\\U00011c53", "\\U00011d53", "\\U00011da3",
       "\\U00016a63", "\\U00016b53", "\\U0001d7d1", "\\U0001d7db",
       "\\U0001d7e5", "\\U0001d7ef", "\\U0001d7f9", "\\U0001e953"},
      {"\\u0664", "\\u06f4", "\\u07c4", "\\u096a", "\\u09ea", "\\u0a6a",
       "\\u0aea", "\\u0b6a", "\\u0bea", "\\u0c6a", "\\u0cea", "\\u0d6a",
       "\\u0dea", "\\u0e54", "\\u0ed4", "\\u0f24", "\\u1044", "\\u1094",
       "\\u17e4", "\\u1814", "\\u194a", "\\u19d4", "\\u1a84", "\\u1a94",
       "\\u1b54", "\\u1bb4", "\\u1c44", "\\u1c54", "\\ua624", "\\ua8d4",
       "\\ua904", "\\ua9d4", "\\ua9f4", "\\uaa54", "\\uabf4", "\\uff14",
       "\\U000104a4", "\\U00010d34", "\\U0001106a", "\\U000110f4",
       "\\U0001113a", "\\U000111d4", "\\U000112f4", "\\U00011454",
       "\\U000114d4", "\\U00011654", "\\U000116c4", "\\U00011734",
       "\\U000118e4", "\\U00011c54", "\\U00011d54", "\\U00011da4",
       "\\U00016a64", "\\U00016b54", "\\U0001d7d2", "\\U0001d7dc",
       "\\U0001d7e6", "\\U0001d7f0", "\\U0001d7fa", "\\U0001e954"},
      {"\\u0665", "\\u06f5", "\\u07c5", "\\u096b", "\\u09eb", "\\u0a6b",
       "\\u0aeb", "\\u0b6b", "\\u0beb", "\\u0c6b", "\\u0ceb", "\\u0d6b",
       "\\u0deb", "\\u0e55", "\\u0ed5", "\\u0f25", "\\u1045", "\\u1095",
       "\\u17e5", "\\u1815", "\\u194b", "\\u19d5", "\\u1a85", "\\u1a95",
       "\\u1b55", "\\u1bb5", "\\u1c45", "\\u1c55", "\\ua625", "\\ua8d5",
       "\\ua905", "\\ua9d5", "\\ua9f5", "\\uaa55", "\\uabf5", "\\uff15",
       "\\U000104a5", "\\U00010d35", "\\U0001106b", "\\U000110f5",
       "\\U0001113b", "\\U000111d5", "\\U000112f5", "\\U00011455",
       "\\U000114d5", "\\U00011655", "\\U000116c5", "\\U00011735",
       "\\U000118e5", "\\U00011c55", "\\U00011d55", "\\U00011da5",
       "\\U00016a65", "\\U00016b55", "\\U0001d7d3", "\\U0001d7dd",
       "\\U0001d7e7", "\\U0001d7f1", "\\U0001d7fb", "\\U0001e955"},
      {"\\u0666", "\\u06f6", "\\u07c6", "\\u096c", "\\u09ec", "\\u0a6c",
       "\\u0aec", "\\u0b6c", "\\u0bec", "\\u0c6c", "\\u0cec", "\\u0d6c",
       "\\u0dec", "\\u0e56", "\\u0ed6", "\\u0f26", "\\u1046", "\\u1096",
       "\\u17e6", "\\u1816", "\\u194c", "\\u19d6", "\\u1a86", "\\u1a96",
       "\\u1b56", "\\u1bb6", "\\u1c46", "\\u1c56", "\\ua626", "\\ua8d6",
       "\\ua906", "\\ua9d6", "\\ua9f6", "\\uaa56", "\\uabf6", "\\uff16",
       "\\U000104a6", "\\U00010d36", "\\U0001106c", "\\U000110f6",
       "\\U0001113c", "\\U000111d6", "\\U000112f6", "\\U00011456",
       "\\U000114d6", "\\U00011656", "\\U000116c6", "\\U00011736",
       "\\U000118e6", "\\U00011c56", "\\U00011d56", "\\U00011da6",
       "\\U00016a66", "\\U00016b56", "\\U0001d7d4", "\\U0001d7de",
       "\\U0001d7e8", "\\U0001d7f2", "\\U0001d7fc", "\\U0001e956"},
      {"\\u0667", "\\u06f7", "\\u07c7", "\\u096d", "\\u09ed", "\\u0a6d",
       "\\u0aed", "\\u0b6d", "\\u0bed", "\\u0c6d", "\\u0ced", "\\u0d6d",
       "\\u0ded", "\\u0e57", "\\u0ed7", "\\u0f27", "\\u1047", "\\u1097",
       "\\u17e7", "\\u1817", "\\u194d", "\\u19d7", "\\u1a87", "\\u1a97",
       "\\u1b57", "\\u1bb7", "\\u1c47", "\\u1c57", "\\ua627", "\\ua8d7",
       "\\ua907", "\\ua9d7", "\\ua9f7", "\\uaa57", "\\uabf7", "\\uff17",
       "\\U000104a7", "\\U00010d37", "\\U0001106d", "\\U000110f7",
       "\\U0001113d", "\\U000111d7", "\\U000112f7", "\\U00011457",
       "\\U000114d7", "\\U00011657", "\\U000116c7", "\\U00011737",
       "\\U000118e7", "\\U00011c57", "\\U00011d57", "\\U00011da7",
       "\\U00016a67", "\\U00016b57", "\\U0001d7d5", "\\U0001d7df",
       "\\U0001d7e9", "\\U0001d7f3", "\\U0001d7fd", "\\U0001e957"},
      {"\\u0668", "\\u06f8", "\\u07c8", "\\u096e", "\\u09ee", "\\u0a6e",
       "\\u0aee", "\\u0b6e", "\\u0bee", "\\u0c6e", "\\u0cee", "\\u0d6e",
       "\\u0dee", "\\u0e58", "\\u0ed8", "\\u0f28", "\\u1048", "\\u1098",
       "\\u17e8", "\\u1818", "\\u194e", "\\u19d8", "\\u1a88", "\\u1a98",
       "\\u1b58", "\\u1bb8", "\\u1c48", "\\u1c58", "\\ua628", "\\ua8d8",
       "\\ua908", "\\ua9d8", "\\ua9f8", "\\uaa58", "\\uabf8", "\\uff18",
       "\\U000104a8", "\\U00010d38", "\\U0001106e", "\\U000110f8",
       "\\U0001113e", "\\U000111d8", "\\U000112f8", "\\U00011458",
       "\\U000114d8", "\\U00011658", "\\U000116c8", "\\U00011738",
       "\\U000118e8", "\\U00011c58", "\\U00011d58", "\\U00011da8",
       "\\U00016a68", "\\U00016b58", "\\U0001d7d6", "\\U0001d7e0",
       "\\U0001d7ea", "\\U0001d7f4", "\\U0001d7fe", "\\U0001e958"},
      {"\\u0669", "\\u06f9", "\\u07c9", "\\u096f", "\\u09ef", "\\u0a6f",
       "\\u0aef", "\\u0b6f", "\\u0bef", "\\u0c6f", "\\u0cef", "\\u0d6f",
       "\\u0def", "\\u0e59", "\\u0ed9", "\\u0f29", "\\u1049", "\\u1099",
       "\\u17e9", "\\u1819", "\\u194f", "\\u19d9", "\\u1a89", "\\u1a99",
       "\\u1b59", "\\u1bb9", "\\u1c49", "\\u1c59", "\\ua629", "\\ua8d9",
       "\\ua909", "\\ua9d9", "\\ua9f9", "\\uaa59", "\\uabf9", "\\uff19",
       "\\U000104a9", "\\U00010d39", "\\U0001106f", "\\U000110f9",
       "\\U0001113f", "\\U000111d9", "\\U000112f9", "\\U00011459",
       "\\U000114d9", "\\U00011659", "\\U000116c9", "\\U00011739",
       "\\U000118e9", "\\U00011c59", "\\U00011d59", "\\U00011da9",
       "\\U00016a69", "\\U00016b59", "\\U0001d7d7", "\\U0001d7e1",
       "\\U0001d7eb", "\\U0001d7f5", "\\U0001d7ff", "\\U0001e959"}>>

\* the decimal digits Unicode 12.0 adds, and those Unicode 13.0 adds
Unicode12Digits ==
    <<{"\\U0001e140", "\\U0001e2f0"},
      {"\\U0001e141", "\\U0001e2f1"},
      {"\\U0001e142", "\\U0001e2f2"},
      {"\\U0001e143", "\\U0001e2f3"},
      {"\\U0001e144", "\\U0001e2f4"},
      {"\\U0001e145", "\\U0001e2f5"},
      {"\\U0001e146", "\\U0001e2f6"},
      {"\\U0001e147", "\\U0001e2f7"},
      {"\\U0001e148", "\\U0001e2f8"},
      {"\\U0001e149", "\\U0001e2f9"}>>
Unicode13Digits ==
    <<{"\\U00011950", "\\U0001fbf0"},
      {"\\U00011951", "\\U0001fbf1"},
      {"\\U00011952", "\\U0001fbf2"},
      {"\\U00011953", "\\U0001fbf3"},
      {"\\U00011954", "\\U0001fbf4"},
      {"\\U00011955", "\\U0001fbf5"},
      {"\\U00011956", "\\U0001fbf6"},
      {"\\U00011957", "\\U0001fbf7"},
      {"\\U00011958", "\\U0001fbf8"},
      {"\\U00011959", "\\U0001fbf9"}>>

\* the decimal digits beyond ASCII for the interpreter py
unicode_digits(py) ==
    [d \in DOMAIN UnicodeDigits |->
        UnicodeDigits[d]
            \cup (IF py \in {"3.8", "3.9"} THEN Unicode12Digits[d] ELSE {})
            \cup (IF py = "3.9" THEN Unicode13Digits[d] ELSE {})]

TransformDecimalAndSpaceToASCII(s, py) ==
    [i \in DOMAIN s |->
        IF s[i] \in AsciiChars THEN s[i]
        ELSE IF s[i] \in UnicodeSpaces THEN " "
        ELSE IF \E d \in DOMAIN UnicodeDigits : s[i] \in unicode_digits(py)[d]
        THEN DigitChars[CHOOSE d \in DOMAIN UnicodeDigits : s[i] \in unicode_digits(py)[d]]
        ELSE "?"]

\* the blanks float() skips at both ends of the ASCII text: blank, \t, \n,
\* \v, \f and \r. The separators \x1c to \x1f, blanks for str.isspace()
\* and str.strip(), are none for float().
FloatBlanks == {" ", "\t", "\n", "\\x0b", "\f", "\r"}

\* the text without the blanks at its ends
float_strip(s) ==
    LET inner == {i \in DOMAIN s : s[i] \notin FloatBlanks}
    IN  IF inner = {} THEN <<>>
        ELSE SubSeq(s, CHOOSE i \in inner : \A j \in inner : i <= j,
                       CHOOSE i \in inner : \A j \in inner : j <= i)

\* a run of digits in which single underscores may separate digits
IsDigitPart(p) ==
    /\ p # <<>>
    /\ IsDigit(p[1]) /\ IsDigit(p[Len(p)])
    /\ \A i \in DOMAIN p : IsDigit(p[i]) \/ (p[i] = "_" /\ p[i + 1] # "_")
DigitsOf(p) == SelectSeq(p, IsDigit)

\* a run of digits without its zeros at the left, at the right
DropLeadingZeros(ds) ==
    LET nz == {i \in DOMAIN ds : ds[i] # "0"}
    IN  IF nz = {} THEN <<>>
        ELSE SubSeq(ds, CHOOSE i \in nz : \A j \in nz : i <= j, Len(ds))
DropTrailingZeros(ds) ==
    LET nz == {i \in DOMAIN ds : ds[i] # "0"}
    IN  IF nz = {} THEN <<>>
        ELSE SubSeq(ds, 1, CHOOSE i \in nz : \A j \in nz : j <= i)

\* the largest number of millionths a float of the model holds
IntMax == 2147483647

\* the exponents beyond which a double is infinite or zero
MaxExp10 == 309
MinExp10 == -325

\* the longest exponent whose value fits the 32 bits of the integers here,
\* and the magnitude that stands for a longer one
ExpDigits == 9
ExpBeyond == 1000000000

\* the first position of the character ch in u (one past the end when it
\* is absent), and the number of its occurrences
Find(u, ch) ==
    IF \E i \in DOMAIN u : u[i] = ch
    THEN CHOOSE i \in DOMAIN u : u[i] = ch /\ \A j \in 1..(i - 1) : u[j] # ch
    ELSE Len(u) + 1
Count(u, ch) == Cardinality({i \in DOMAIN u : u[i] = ch})

NotAFloat == [ok |-> FALSE, v |-> PyFloat(0)]
AFloat(c) == [ok |-> TRUE, v |-> c]

\* the float of full millionths (a run of digits): defined when the run
\* fits the 32 bits of the representation
float_units(full, neg) ==
    CASE \/ Len(full) < 10
         \/ /\ Len(full) = 10
            /\ \/ DigitsVal(SubSeq(full, 1, 9)) < IntMax \div 10
               \/ /\ DigitsVal(SubSeq(full, 1, 9)) = IntMax \div 10
                  /\ DigitVal(full[10]) <= IntMax % 10
         -> AFloat(PyFloat(IF neg THEN -DigitsVal(full) ELSE DigitsVal(full)))

\* the float sig * 10^p10, sig having neither leading nor trailing zeros:
\* zero, an infinity beyond the largest double, zero below the smallest, and
\* otherwise the value when it is a whole number of millionths
float_scaled(sig, p10, neg) ==
    CASE sig = <<>> -> AFloat(PyFloat(0))
      [] sig # <<>> /\ p10 + Len(sig) - 1 >= MaxExp10 -> AFloat(PyInf(IF neg THEN -1 ELSE 1))
      [] sig # <<>> /\ p10 + Len(sig) - 1 <= MinExp10 -> AFloat(PyFloat(0))
      [] sig # <<>> /\ p10 + Len(sig) - 1 > MinExp10 /\ p10 + Len(sig) - 1 < MaxExp10
         /\ p10 + 6 >= 0 /\ p10 + 6 < 10 ->
            float_units(sig \o [i \in 1..(p10 + 6) |-> "0"], neg)

\* the float of the digits ds, fraclen of them after the point, times 10^e10
float_digits(ds, fraclen, e10, neg) ==
    float_scaled(DropTrailingZeros(DropLeadingZeros(ds)),
                 e10 - fraclen + Len(DropLeadingZeros(ds))
                     - Len(DropTrailingZeros(DropLeadingZeros(ds))),
                 neg)

\* the value of the exponent text ex ([sign] digits, or empty). An exponent
\* of more than ExpDigits digits is beyond the integers here: it gets the
\* magnitude ExpBeyond, which is no more than its own.
exponent_of(ex) ==
    LET exd  == IF ex # <<>> /\ ex[1] \in {"-", "+"} THEN Tail(ex) ELSE ex
        edig == DropLeadingZeros(DigitsOf(exd))
        emag == IF Len(edig) > ExpDigits THEN ExpBeyond ELSE DigitsVal(edig)
    IN  [ok |-> IsDigitPart(exd),
         v |-> IF ex # <<>> /\ ex[1] = "-" THEN -emag ELSE emag,
         beyond |-> Len(edig) > ExpDigits]

\* digits [. digits] with a digit on one side of the point at least
mantissa_ok(mant) ==
    LET d  == Find(mant, ".")
        ip == SubSeq(mant, 1, d - 1)
        fp == SubSeq(mant, d + 1, Len(mant))
    IN  /\ Count(mant, ".") <= 1
        /\ ip = <<>> \/ IsDigitPart(ip)
        /\ fp = <<>> \/ IsDigitPart(fp)
        /\ Len(ip) + Len(fp) >= 1

\* the float of mantissa [e exponent]. With an exponent beyond the integers
\* the value is the infinity or the zero the magnitude ExpBeyond gives, as
\* long as the mantissa has fewer than ExpBeyond + MinExp10 digits; it has
\* no value here for a longer mantissa (no arm of the CASE applies).
float_number(mant, has_exp, ex, neg) ==
    IF mantissa_ok(mant) /\ (has_exp => exponent_of(ex).ok)
    THEN CASE ~has_exp ->
                float_digits(DigitsOf(mant),
                             Len(DigitsOf(SubSeq(mant, Find(mant, ".") + 1, Len(mant)))),
                             0, neg)
           [] has_exp /\ (exponent_of(ex).beyond
                              => Len(DigitsOf(mant)) < ExpBeyond + MinExp10) ->
                float_digits(DigitsOf(mant),
                             Len(DigitsOf(SubSeq(mant, Find(mant, ".") + 1, Len(mant)))),
                             exponent_of(ex).v, neg)
    ELSE NotAFloat

\* the float of a text without blanks and sign, in lower case
float_unsigned(u, neg) ==
    IF u \in {<<"i", "n", "f">>, <<"i", "n", "f", "i", "n", "i", "t", "y">>}
    THEN AFloat(PyInf(IF neg THEN -1 ELSE 1))
    ELSE IF u = <<"n", "a", "n">> THEN AFloat(PyNaN)
    ELSE IF Count(u, "e") > 1 THEN NotAFloat
    ELSE float_number(SubSeq(u, 1, Find(u, "e") - 1), Count(u, "e") = 1,
                      SubSeq(u, Find(u, "e") + 1, Len(u)), neg)

float_signed(t) ==
    IF t # <<>> /\ t[1] \in {"-", "+"} THEN float_unsigned(Tail(t), t[1] = "-")
    ELSE float_unsigned(t, FALSE)

\* float(str) on the interpreter py: the text is written in ASCII and the
\* blanks at its ends are skipped; then [sign] inf | infinity | nan in any
\* letter case, or [sign] digits [. digits] [e [sign] digits]. The value is
\* exact: a finite value that is no whole number of millionths, or whose
\* magnitude is beyond the 32 bits of the representation, has no value here
\* (no arm of the CASE of float_scaled or float_units applies).
float_str(s, py) ==
    float_signed(lower(float_strip(TransformDecimalAndSpaceToASCII(s, py))))

\* float(str): what every supported interpreter gives. A text that holds a
\* digit some of them know and the others do not, and that is a number for
\* those which know it, has no value here (no arm of the CASE applies).
ParseFloat(s) ==
    CASE \A py \in PythonVersions : float_str(s, py) = float_str(s, "3.7")
         -> float_str(s, "3.7")

---------------------------------------------------------------------------
(* Field validation of the subject schema (pydantic) *)

Chars(str) ==
    CASE str = "male"   -> <<"m", "a", "l", "e">>
      [] str = "female" -> <<"f", "e", "m", "a", "l", "e">>
      [] str = "other"  -> <<"o", "t", "h", "e", "r">>
      [] str = "True"   -> <<"T", "r", "u", "e">>
      [] str = "False"  -> <<"F", "a", "l", "s", "e">>
      [] str = "true"   -> <<"t", "r", "u", "e">>
      [] str = "false"  -> <<"f", "a", "l", "s", "e">>
      [] str = "yes"    -> <<"y", "e", "s">>
      [] str = "no"     -> <<"n", "o">>
      [] str = "on"     -> <<"o", "n">>
      [] str = "off"    -> <<"o", "f", "f">>
      [] str = "maybe"  -> <<"m", "a", "y", "b", "e">>
      [] str = "YES"    -> <<"Y", "E", "S">>
      [] str = "1.0"    -> <<"1", ".", "0">>
      [] str = "0.0"    -> <<"0", ".", "0">>
      [] str = "30"     -> <<"3", "0">>
      [] str = "y"      -> <<"y">>
      [] str = "n"      -> <<"n">>
      [] str = "t"      -> <<"t">>
      [] str = "f"      -> <<"f">>
      [] str = "0"      -> <<"0">>
      [] str = "1"      -> <<"1">>
      [] str = "2"      -> <<"2">>

\* class Sex(Enum): the member values
Sex == {Chars("male"), Chars("female")}

\* pydantic's enum validation of the field sex (use_enum_values: the value
\* is kept as the member's string)
enum_validator(c) ==
    IF c.ty = "str" /\ c.s \in Sex
    THEN [ok |-> TRUE, v |-> IF c.s = Chars("male") THEN "male" ELSE "female"]
    ELSE [ok |-> FALSE, v |-> "male"]

\* pydantic's float_validator: a float is kept, anything else goes through
\* float(v)
float_validator(c) ==
    CASE c.ty = "float" -> [ok |-> TRUE, v |-> c]
      [] c.ty = "int"   -> [ok |-> TRUE, v |-> PyFloat(c.n * Unit)]
      [] c.ty = "bool"  -> [ok |-> TRUE, v |-> PyFloat(c.n * Unit)]
      [] c.ty = "str"   -> ParseFloat(c.s)

\* Field(gt=30.0) on age
AgeGt == 30

\* v > 30.0 for the float v: inf is greater, -inf and nan are not
number_size_validator(v) ==
    IF isfinite(v) THEN v.n > AgeGt * Unit ELSE v = PyInf(1)

\* pydantic's bool_validator
BOOL_FALSE == {Chars("0"), Chars("off"), Chars("f"), Chars("false"), Chars("n"), Chars("no")}
BOOL_TRUE  == {Chars("1"), Chars("on"), Chars("t"), Chars("true"), Chars("y"), Chars("yes")}

\* variant: only a bool is accepted (StrictBool)
bool_validator_Strict(c) ==
    IF c.ty = "bool" THEN [ok |-> TRUE, v |-> c.n = 1] ELSE [ok |-> FALSE, v |-> FALSE]

bool_validator(c) ==
    CASE c.ty = "bool"  -> [ok |-> TRUE, v |-> c.n = 1]
      [] c.ty = "str"   ->
            IF lower(c.s) \in BOOL_TRUE THEN [ok |-> TRUE, v |-> TRUE]
            ELSE IF lower(c.s) \in BOOL_FALSE THEN [ok |-> TRUE, v |-> FALSE]
            ELSE [ok |-> FALSE, v |-> FALSE]
      [] c.ty = "int"   ->
            IF c.n \in {0, 1} THEN [ok |-> TRUE, v |-> c.n = 1]
            ELSE [ok |-> FALSE, v |-> FALSE]
      [] c.ty = "float" ->
            IF isfinite(c) /\ c.n \in {0, Unit} THEN [ok |-> TRUE, v |-> c.n = Unit]
            ELSE [ok |-> FALSE, v |-> FALSE]

\* the fields of FraminghamSubject
FloatFields == {"age", "HDL", "tch", "SBP_nt", "SBP_t"}
BoolFields  == {"smoking", "diabetes"}
Fields      == {"sex"} \cup FloatFields \cup BoolFields

\* validation of one field of the keyword arguments kw (a function from
\* names to Python values); a missing field fails
field_ok(kw, f) ==
    /\ f \in DOMAIN kw
    /\ CASE f = "sex"          -> enum_validator(kw[f]).ok
         [] f = "age"          -> /\ float_validator(kw[f]).ok
                                  /\ number_size_validator(float_validator(kw[f]).v)
         [] f \in FloatFields  -> float_validator(kw[f]).ok
         [] f \in BoolFields   -> bool_validator(kw[f]).ok

NoSubject ==
    [sex |-> "male", age |-> PyFloat(0), HDL |-> PyFloat(0), tch |-> PyFloat(0),
     SBP_nt |-> PyFloat(0), SBP_t |-> PyFloat(0),
     smoking |-> PyBool(FALSE), diabetes |-> PyBool(FALSE)]

\* FraminghamSubject(**kw): the validated record, or a ValidationError
\* naming the fields that failed. Names of kw outside Fields are ignored.
FraminghamSubject(kw) ==
    LET bad == {f \in Fields : ~field_ok(kw, f)}
    IN  IF bad # {} THEN [ok |-> FALSE, errors |-> bad, sub |-> NoSubject]
        ELSE [ok |-> TRUE, errors |-> {},
              sub |-> [sex      |-> enum_validator(kw["sex"]).v,
                       age      |-> float_validator(kw["age"]).v,
                       HDL      |-> float_validator(kw["HDL"]).v,
                       tch      |-> float_validator(kw["tch"]).v,
                       SBP_nt   |-> float_validator(kw["SBP_nt"]).v,
                       SBP_t    |-> float_validator(kw["SBP_t"]).v,
                       smoking  |-> PyBool(bool_validator(kw["smoking"]).v),
                       diabetes |-> PyBool(bool_validator(kw["diabetes"]).v)]]

---------------------------------------------------------------------------
(* Real arithmetic of the score, in fixed point *)

Limb == 1000
FP   == Limb * Limb

\* a / b rounded to the nearest integer, b > 0
rdiv(a, b) == (a + b \div 2) \div b

\* the product of two fixed-point numbers
fpmul(a, b) ==
    LET x   == Abs(a)
        y   == Abs(b)
        xh  == x \div Limb
        xl  == x % Limb
        yh  == y \div Limb
        yl  == y % Limb
        mid == xh * yl + xl * yh
        r   == xh * yh + mid \div Limb + rdiv((mid % Limb) * Limb + xl * yl, FP)
    IN  IF (a >= 0) = (b >= 0) THEN r ELSE -r

\* the fixed-point quotient of two naturals, a >= 0, b > 0
fpdiv(a, b) ==
    LET q1 == (a * Limb) \div b
        r1 == (a * Limb) % b
    IN  q1 * Limb + rdiv(r1 * Limb, b)

\* ln 2 and ln 10 to seven decimal digits
LN2x  == 6931472
LN10x == 23025851

\* t + t^3/3 + t^5/5 + ... (atanh t), summed until the terms vanish
RECURSIVE atanh_series(_, _, _)
atanh_series(term, t2, j) ==
    IF term = 0 THEN 0
    ELSE rdiv(term, 2 * j + 1) + atanh_series(fpmul(term, t2), t2, j + 1)

\* the largest k with 2^k <= n, n >= 1
RECURSIVE ilog2(_)
ilog2(n) == IF n < 2 THEN 0 ELSE 1 + ilog2(n \div 2)

\* the largest argument whose quotient fpdiv forms within 32 bits
LogArgMax == 1048575

\* ln(m / 10^d) = k ln 2 - d ln 10 + 2 atanh((m - 2^k) / (m + 2^k)), after
\* the trailing zeros of m beyond the first decimal are dropped; an m above
\* LogArgMax is rounded to one digit less
RECURSIVE log_scaled(_, _)
log_scaled(m, d) ==
    IF d > 1 /\ m % 10 = 0 THEN log_scaled(m \div 10, d - 1)
    ELSE IF m > LogArgMax
         THEN log_scaled(m \div 10 + (IF m % 10 >= 5 THEN 1 ELSE 0), d - 1)
    ELSE LET k == ilog2(m)
             p == 2 ^ k
             t == fpdiv(m - p, m + p)
         IN  rdiv(k * LN2x - d * LN10x, 10) + 2 * atanh_series(t, fpmul(t, t), 0)

\* np.log of a positive finite float of n millionths
np_log(n) == log_scaled(n, 6)

\* ln of a fixed-point number in (0, 1]
ln_unit(b) ==
    LET t == fpdiv(FP - b, FP + b)
    IN  -2 * atanh_series(t, fpmul(t, t), 0)

\* 1 + x + x^2/2! + ... summed until the terms vanish
RECURSIVE exp_series(_, _, _)
exp_series(term, x, n) ==
    IF term = 0 THEN 0
    ELSE term + exp_series(rdiv(fpmul(term, x), n + 1), x, n + 1)

\* np.exp of a fixed-point number: exp(x) = exp(x/2)^2 down to |x| <= 1
RECURSIVE np_exp(_)
np_exp(x) ==
    IF Abs(x) > FP
    THEN LET h == np_exp(rdiv(x, 2)) IN fpmul(h, h)
    ELSE exp_series(FP, x, 0)

\* np.power(b, e) for a base b in (0, 1]
np_power(b, e) == np_exp(fpmul(e, ln_unit(b)))

\* beyond this exponent argument baseline^exp(x) is below the resolution 1/FP
ExpArgMax == 7 * FP

---------------------------------------------------------------------------
(* FraminghamRiskScore *)

\* the iteration order of self.betas[sex]
BetaOrder == <<"age", "tch", "HDL", "SBP_nt", "SBP_t", "smoking", "diabetes">>

Betas0 ==
    [female |-> [age |-> 2328880, tch |-> 1209040, HDL |-> -708330,
                 SBP_nt |-> 2761570, SBP_t |-> 2822630,
                 smoking |-> 528730, diabetes |-> 691540],
     male   |-> [age |-> 3061170, tch |-> 1123700, HDL |-> -932630,
                 SBP_nt |-> 1933030, SBP_t |-> 1998810,
                 smoking |-> 654510, diabetes |-> 573670]]
BaselineRisk0 == [female |-> 950120, male |-> 889360]
MeanRisk0     == [female |-> 26193100, male |-> 23980200]

\* a real of the score: nan, an infinity (inf = 1 or -1) or the fixed-point v
NaN == [nan |-> TRUE, inf |-> 0, v |-> 0]
Num(x) == [nan |-> FALSE, inf |-> 0, v |-> x]
Inf(sgn) == [nan |-> FALSE, inf |-> sgn, v |-> 0]

\* a + b of two reals of the score
Add(a, b) ==
    IF a.nan \/ b.nan \/ (a.inf # 0 /\ b.inf # 0 /\ a.inf # b.inf) THEN NaN
    ELSE IF a.inf # 0 THEN a
    ELSE IF b.inf # 0 THEN b
    ELSE Num(a.v + b.v)

\* np.log(curr_val) * beta for a number curr_val that is not zero: nan for a
\* negative number and for nan, an infinity for inf
log_times(curr_val, beta) ==
    CASE isnan(curr_val) \/ curr_val.n < 0 -> NaN
      [] curr_val = PyInf(1) ->
            IF beta = 0 THEN NaN ELSE Inf(IF beta > 0 THEN 1 ELSE -1)
      [] OTHER ->
            Num(fpmul(np_log(IF curr_val.ty = "int" THEN curr_val.n * Unit
                                                    ELSE curr_val.n), beta))

\* variant: the logarithm is taken of every number that is not a bool, zero
\* included; the logarithm of zero is not finite
Term_LogOfZero(curr_val, beta) ==
    IF curr_val.ty \in {"int", "float"}
    THEN IF curr_val.n = 0 /\ isfinite(curr_val) THEN NaN ELSE log_times(curr_val, beta)
    ELSE Num(curr_val.n * beta)

\* one pass of the loop body: curr_val * beta after the log rule. A number
\* that is not a bool and not zero is replaced by its logarithm; a bool or a
\* zero multiplies beta as it is.
Term(curr_val, beta) ==
    IF curr_val.ty \in {"int", "float"} /\ (curr_val.n # 0 \/ ~isfinite(curr_val))
    THEN log_times(curr_val, beta)
    ELSE Num(curr_val.n * beta)

\* lin_comb after the parameters BetaOrder[1..k]
RECURSIVE lin_comb(_, _)
lin_comb(subject, k) ==
    IF k = 0 THEN Num(0)
    ELSE Add(lin_comb(subject, k - 1),
             Term(subject[BetaOrder[k]], betas[subject.sex][BetaOrder[k]]))

Min(a, b) == IF a < b THEN a ELSE b

\* 1 - baseline ** exp(L - mean): 1 for L = inf (the power is 0), 0 for
\* L = -inf (the power is 1)
survival_complement(L, baseline, mean) ==
    CASE L.nan      -> NaN
      [] L.inf = 1  -> Num(FP)
      [] L.inf = -1 -> Num(0)
      [] OTHER      -> Num(FP - np_power(baseline, np_exp(Min(L.v - mean, ExpArgMax))))

\* variant: the constants of the other sex are used
_compute_single_SwappedSex(subject) ==
    LET o == IF subject.sex = "male" THEN "female" ELSE "male"
    IN  survival_complement(lin_comb(subject, Len(BetaOrder)), baseline_risk[o], mean_risk[o])

\* 1 - baseline_risk[sex] ** exp(lin_comb - mean_risk[sex])
_compute_single(subject) ==
    survival_complement(lin_comb(subject, Len(BetaOrder)),
                        baseline_risk[subject.sex], mean_risk[subject.sex])

---------------------------------------------------------------------------
(* Tabular data: list of row lists, numpy array, pandas DataFrame *)

\* data is [ty, columns, ncols, rows]: columns are the labels of a
\* DataFrame, ncols the second dimension of an ndarray, rows the cells. An
\* ndarray has its number of dimensions ndim too: shape (Len(rows), ncols)
\* when ndim = 2, shape (0,) when ndim = 1.
PyList(rows)             == [ty |-> "list", columns |-> <<>>, ncols |-> 0, rows |-> rows]
NdArray(rows, ndim, ncols) ==
    [ty |-> "ndarray", columns |-> <<>>, ndim |-> ndim, ncols |-> ncols, rows |-> rows]
DataFrame(rows, columns) ==
    [ty |-> "DataFrame", columns |-> columns, ncols |-> Len(columns), rows |-> rows]

\* np.array(rows) of the caller: the common dtype of the values. One str
\* makes every value a str; otherwise a float makes every number a float.
\* np.array([]) is an array of one dimension and no element.
np_array(rows, ncols) ==
    LET cells  == {rows[i][j] : i \in DOMAIN rows, j \in 1..ncols}
        common == IF \E c \in cells : c.ty = "str" THEN "str"
                  ELSE IF \E c \in cells : c.ty = "float" THEN "float"
                  ELSE IF \E c \in cells : c.ty = "int" THEN "int"
                  ELSE "bool"
        conv(c) == CASE common = "str"   -> np_str(c)
                     [] common = "float" -> IF c.ty = "float" THEN c ELSE PyFloat(c.n * Unit)
                     [] common = "int"   -> PyInt(c.n)
                     [] common = "bool"  -> c
    IN  IF rows = <<>> THEN NdArray(<<>>, 1, 0)
        ELSE NdArray([i \in DOMAIN rows |-> [j \in 1..ncols |-> conv(rows[i][j])]],
                     2, ncols)

\* dtype inference of pandas for one column of a list of rows: a column of
\* ints and floats becomes float64; any other mixture is kept as objects.
infer_column(rows, j) ==
    LET col == {rows[i][j] : i \in DOMAIN rows}
    IN  (\A c \in col : c.ty \in {"int", "float"}) /\ (\E c \in col : c.ty = "float")

infer_objects(rows) ==
    [i \in DOMAIN rows |->
        [j \in DOMAIN rows[i] |->
            IF infer_column(rows, j) /\ rows[i][j].ty = "int"
            THEN PyFloat(rows[i][j].n * Unit)
            ELSE rows[i][j]]]

\* pd.DataFrame(data=data, columns=columns) for a list or an ndarray:
\* ValueError when the number of columns passed differs from the data's.
\* An ndarray of one dimension is taken as one column (shape (0,) as
\* (0, 1)); a list without rows takes the columns passed.
pd_DataFrame(d, columns) ==
    LET width == IF d.ty = "ndarray" THEN (IF d.ndim = 1 THEN 1 ELSE d.ncols)
                 ELSE IF d.rows = <<>> THEN Len(columns)
                 ELSE Len(d.rows[1])
    IN  IF width # Len(columns) THEN [ok |-> FALSE, frame |-> DataFrame(<<>>, <<>>)]
        ELSE [ok |-> TRUE,
              frame |-> DataFrame(IF d.ty = "list" THEN infer_objects(d.rows) ELSE d.rows,
                                  columns)]

\* Index.get_loc(c): the position of label c (KeyError when absent)
has_loc(columns, c) == \E i \in DOMAIN columns : columns[i] = c
get_loc(columns, c) == CHOOSE i \in DOMAIN columns : columns[i] = c

---------------------------------------------------------------------------
(* RiskModel *)

\* what a call gives back: the returned scores, or the exception raised.
\* built counts the rows handed to the subject template.
Return(scores, n)     ==
    [raised |-> FALSE, exc |-> "", origin |-> "", scores |-> scores, built |-> n]
Raise(exc, origin, n) ==
    [raised |-> TRUE, exc |-> exc, origin |-> origin, scores |-> <<>>, built |-> n]

\* dict(zip(columns, aslice[indexes])): a repeated name keeps its last value
zip_dict(columns, aslice, indexes) ==
    [name \in {columns[i] : i \in DOMAIN columns} |->
        LET last == CHOOSE i \in DOMAIN columns :
                        /\ columns[i] = name
                        /\ \A k \in DOMAIN columns : columns[k] = name => k <= i
        IN  aslice[indexes[last]]]

\* sub = self.template(**dict(zip(columns, aslice[indexes]))); self.fn(sub)
_compute_single_from_slice(aslice, columns, indexes) ==
    LET sub == FraminghamSubject(zip_dict(columns, aslice, indexes))
    IN  IF sub.ok THEN [ok |-> TRUE, score |-> _compute_single(sub.sub)]
        ELSE [ok |-> FALSE, score |-> NaN]

\* variant: a raising row ends the iteration and the scores so far are returned
RECURSIVE apply_rows_Partial(_, _, _, _, _)
apply_rows_Partial(arr, columns, indexes, i, buff) ==
    IF i > Len(arr) THEN Return(buff, Len(arr))
    ELSE LET r == _compute_single_from_slice(arr[i], columns, indexes)
         IN  IF r.ok
             THEN apply_rows_Partial(arr, columns, indexes, i + 1, Append(buff, r.score))
             ELSE Return(buff, i)

\* the rows i.. of np.apply_along_axis(func1d, axis=1, arr): the results are
\* stored at the position of their row; a raising row ends the call.
RECURSIVE apply_rows(_, _, _, _, _)
apply_rows(arr, columns, indexes, i, buff) ==
    IF i > Len(arr) THEN Return(buff, Len(arr))
    ELSE LET r == _compute_single_from_slice(arr[i], columns, indexes)
         IN  IF r.ok THEN apply_rows(arr, columns, indexes, i + 1, Append(buff, r.score))
             ELSE Raise("ValidationError", "template", i)

\* np.apply_along_axis raises ValueError when there is no row to iterate
apply_along_axis(arr, columns, indexes) ==
    IF arr = <<>> THEN Raise("ValueError", "apply_along_axis", 0)
    ELSE apply_rows(arr, columns, indexes, 1, <<>>)

\* columns_map is [ty, keys, values]: ty the Python type of the argument,
\* keys and values the items of a dict in insertion order.
PyNone        == [ty |-> "NoneType", keys |-> <<>>, values |-> <<>>]
PyNames(ns)   == [ty |-> "list", keys |-> ns, values |-> <<>>]
PyDict(ks, vs) == [ty |-> "dict", keys |-> ks, values |-> vs]

\* variant: no type check
is_dict_Any(cm) == TRUE

\* isinstance(columns_map, dict)
is_dict(cm) == cm.ty = "dict"

\* a list or an ndarray is cast into a DataFrame labelled by the keys of
\* columns_map; a DataFrame is used as it is
normalize(d, cm) ==
    IF d.ty # "DataFrame" /\ d.ty \in {"list", "ndarray"}
    THEN pd_DataFrame(d, cm.keys)
    ELSE [ok |-> TRUE, frame |-> d]

\* variant: a key that labels no column resolves to the first column
resolve_Default(frame, cm) ==
    [ok |-> TRUE,
     indexes |-> [i \in DOMAIN cm.keys |->
                     IF has_loc(frame.columns, cm.keys[i])
                     THEN get_loc(frame.columns, cm.keys[i]) ELSE 1]]

\* indexes = [data.columns.get_loc(c) for c in columns_map.keys()]
resolve(frame, cm) ==
    IF \E i \in DOMAIN cm.keys : ~has_loc(frame.columns, cm.keys[i])
    THEN [ok |-> FALSE, indexes |-> <<>>]
    ELSE [ok |-> TRUE,
          indexes |-> [i \in DOMAIN cm.keys |-> get_loc(frame.columns, cm.keys[i])]]

\* RiskModel.forward(data, columns_map)
forward(d, cm) ==
    IF ~is_dict(cm) THEN Raise("ValueError", "forward", 0)
    ELSE IF ~normalize(d, cm).ok THEN Raise("ValueError", "DataFrame", 0)
    ELSE IF ~resolve(normalize(d, cm).frame, cm).ok THEN Raise("KeyError", "get_loc", 0)
    ELSE apply_along_axis(normalize(d, cm).frame.rows, cm.values,
                          resolve(normalize(d, cm).frame, cm).indexes)

\* variant: the cast to a DataFrame is written to the caller's object
data_after_forward_InPlace(d, cm) ==
    IF is_dict(cm) /\ normalize(d, cm).ok THEN normalize(d, cm).frame ELSE d

\* the caller's objects after the call: forward rebinds its local name data
\* to the new DataFrame and never writes to its arguments
data_after_forward(d, cm) == d
columns_map_after_forward(d, cm) == cm

---------------------------------------------------------------------------
(* The calls made on a model instance *)

\* the order of the values of a subject in the test fixtures
Canonical == <<"sex", "age", "SBP_nt", "SBP_t", "tch", "HDL", "smoking", "diabetes">>

male_subject ==
    <<PyStr(Chars("male")), PyInt(53), PyInt(0), PyInt(125), PyInt(161), PyInt(55),
      PyBool(FALSE), PyBool(TRUE)>>
female_subject ==
    <<PyStr(Chars("female")), PyInt(61), PyInt(124), PyInt(0), PyInt(180), PyInt(47),
      PyBool(TRUE), PyBool(FALSE)>>
\* the subject of the pandas_df fixture (float blood pressures)
table_subject ==
    <<PyStr(Chars("female")), PyInt(65), PyFloat(0), PyFloat(146 * Unit), PyInt(160), PyInt(48),
      PyBool(FALSE), PyBool(TRUE)>>
\* a subject of age exactly 30
young_subject ==
    <<PyStr(Chars("male")), PyInt(30), PyInt(0), PyInt(125), PyInt(161), PyInt(55),
      PyBool(FALSE), PyBool(TRUE)>>
\* a subject whose smoking flag is stored as the float 1.0
float_flag_subject ==
    <<PyStr(Chars("female")), PyInt(61), PyInt(124), PyInt(0), PyInt(180), PyInt(47),
      PyFloat(Unit), PyBool(FALSE)>>

\* a subject whose HDL cholesterol is negative
negative_hdl_subject ==
    <<PyStr(Chars("male")), PyInt(53), PyInt(0), PyInt(125), PyInt(161), PyInt(-5),
      PyBool(FALSE), PyBool(TRUE)>>

Subjects == {male_subject, female_subject, table_subject, young_subject,
             float_flag_subject, negative_hdl_subject}

MaxRows == 2
Batches == UNION {[1..k -> Subjects] : k \in 0..MaxRows}

\* the columns of the pandas_df fixture and a row of it made of a subject
TableColumns ==
    <<"Cov1", "TotalChol", "HDL", "CovX", "DIABETES", "Cov2", "TREATBP", "SBP_nt",
      "SBP_t", "Cov3", "gender", "age", "smoker", "Cov4">>
table_row(r) ==
    <<PyInt(99), r[5], r[6], PyStr(Chars("yes")), r[8], PyInt(451), PyBool(FALSE), r[3],
      r[4], PyStr(Chars("no")), r[1], r[2], r[7], PyFloat(Unit \div 20)>>

framingham_col_map1 ==
    PyDict(<<"age", "gender", "SBP_nt", "SBP_t", "TotalChol", "HDL", "smoker", "DIABETES">>,
           <<"age", "sex", "SBP_nt", "SBP_t", "tch", "HDL", "smoking", "diabetes">>)
framingham_col_map2 == PyDict(Canonical, Canonical)
\* a map one key of which names no column of any table
missing_col_map ==
    PyDict(<<"sex", "age", "SBP_nt", "SBP_t", "tch", "HDL_chol", "smoking", "diabetes">>,
           Canonical)
empty_col_map == PyDict(<<>>, <<>>)

ColumnMaps == {PyNone, PyNames(Canonical), empty_col_map, framingham_col_map1,
               framingham_col_map2, missing_col_map}

Shapes  == {"list", "ndarray", "DataFrame"}
Layouts == {"canonical", "table"}

\* the caller's data argument made of the row values rows
make_data(rows, sh, lay) ==
    CASE sh = "list"    -> PyList(rows)
      [] sh = "ndarray" -> np_array(rows, Len(Canonical))
      [] sh = "DataFrame" /\ lay = "canonical" ->
            DataFrame(infer_objects(rows), Canonical)
      [] sh = "DataFrame" /\ lay = "table" ->
            DataFrame(infer_objects([i \in DOMAIN rows |-> table_row(rows[i])]),
                      TableColumns)

Pending == [raised |-> FALSE, exc |-> "", origin |-> "pending", scores |-> <<>>, built |-> 0]
NoRaw   == [f \in Fields |-> PyInt(0)]
NoBuilt == [ok |-> FALSE, errors |-> {}, sub |-> NoSubject]

\* FraminghamRiskScore.__init__
Init ==
    /\ pc = "idle"
    /\ underlying = <<>>
    /\ shape = "list"
    /\ layout = "canonical"
    /\ data = PyList(<<>>)
    /\ columns_map = PyNone
    /\ result = Pending
    /\ baseline_risk = BaselineRisk0
    /\ mean_risk = MeanRisk0
    /\ betas = Betas0
    /\ spc = "off"
    /\ raw = NoRaw
    /\ built = NoBuilt
    /\ scored = NaN
    /\ gpc = "idle"
    /\ n_sub = 0
    /\ todo = <<>>
    /\ population = <<>>

\* the caller prepares data and columns_map and calls the model
Call ==
    /\ pc = "idle"
    /\ \E rows \in Batches, sh \in Shapes, lay \in Layouts, cm \in ColumnMaps :
          /\ sh # "DataFrame" => lay = "canonical"
          /\ underlying' = rows
          /\ shape' = sh
          /\ layout' = lay
          /\ data' = make_data(rows, sh, lay)
          /\ columns_map' = cm
    /\ pc' = "called"
    /\ result' = Pending
    /\ UNCHANGED <<baseline_risk, mean_risk, betas, spc, raw, built, scored, gen>>

\* __call__ -> forward runs to its return or its exception
Forward ==
    /\ pc = "called"
    /\ result' = forward(data, columns_map)
    /\ data' = data_after_forward(data, columns_map)
    /\ columns_map' = columns_map_after_forward(data, columns_map)
    /\ pc' = "done"
    /\ UNCHANGED <<underlying, shape, layout, baseline_risk, mean_risk, betas,
                   spc, raw, built, scored, gen>>

\* the caller has used the outcome and drops its objects; it may call again
Finish ==
    /\ pc = "done"
    /\ pc' = "idle"
    /\ underlying' = <<>>
    /\ shape' = "list"
    /\ layout' = "canonical"
    /\ data' = PyList(<<>>)
    /\ columns_map' = PyNone
    /\ result' = Pending
    /\ UNCHANGED <<baseline_risk, mean_risk, betas, spc, raw, built, scored, gen>>

Next == Call \/ Forward \/ Finish

Spec == Init /\ [][Next]_vars

---------------------------------------------------------------------------
(* One subject through the schema and the score *)

SexValues     == {PyStr(Chars("male")), PyStr(Chars("female")), PyStr(Chars("other"))}
\* the str of Arabic-Indic digits is the age 31
AgeValues     ==
    {PyInt(30), PyInt(31), PyFloat(30 * Unit + Unit \div 2), PyStr(Chars("30")), PyInt(61),
     PyStr(<<"\\u0663", "\\u0661">>)}
HDLValues     == {PyInt(47), PyInt(0), PyInt(-5), PyStr(IntToChars(55))}
TchValues     == {PyInt(180), PyInt(0), PyFloat(-(3 * Unit) \div 2)}
SBPntValues   == {PyInt(124), PyInt(0), PyInt(-1)}
SBPtValues    == {PyInt(0), PyInt(125), PyFloat(-(Unit \div 2))}
SmokingValues ==
    {PyBool(TRUE), PyBool(FALSE), PyInt(0), PyInt(1), PyInt(2), PyInt(-1),
     PyFloat(0), PyFloat(Unit), PyFloat(Unit \div 2), PyFloat(2 * Unit)}
    \cup {PyStr(Chars(w)) : w \in {"True", "False", "true", "false", "yes", "YES", "no",
                                   "on", "off", "y", "n", "t", "f", "0", "1", "2",
                                   "1.0", "0.0", "maybe"}}
    \cup {PyStr(<<>>)}
DiabetesValues == {PyBool(FALSE), PyInt(1), PyStr(Chars("maybe"))}

RawSubjects ==
    [sex : SexValues, age : AgeValues, HDL : HDLValues, tch : TchValues,
     SBP_nt : SBPntValues, SBP_t : SBPtValues,
     smoking : SmokingValues, diabetes : DiabetesValues]

SchemaInit ==
    /\ pc = "idle"
    /\ underlying = <<>>
    /\ shape = "list"
    /\ layout = "canonical"
    /\ data = PyList(<<>>)
    /\ columns_map = PyNone
    /\ result = Pending
    /\ baseline_risk = BaselineRisk0
    /\ mean_risk = MeanRisk0
    /\ betas = Betas0
    /\ spc = "raw"
    /\ raw \in RawSubjects
    /\ built = NoBuilt
    /\ scored = NaN
    /\ gpc = "idle"
    /\ n_sub = 0
    /\ todo = <<>>
    /\ population = <<>>

\* sub = self.template(**kw)
Validate ==
    /\ spc = "raw"
    /\ built' = FraminghamSubject(raw)
    /\ spc' = "validated"
    /\ UNCHANGED <<pc, underlying, shape, layout, data, columns_map, result,
                   baseline_risk, mean_risk, betas, raw, scored, gen>>

\* self.fn(sub), reached only by a record that validated
Score ==
    /\ spc = "validated"
    /\ built.ok
    /\ scored' = _compute_single(built.sub)
    /\ spc' = "scored"
    /\ UNCHANGED <<pc, underlying, shape, layout, data, columns_map, result,
                   baseline_risk, mean_risk, betas, raw, built, gen>>

SchemaNext == Validate \/ Score

SchemaSpec == SchemaInit /\ [][SchemaNext]_vars

---------------------------------------------------------------------------
(* The synthetic population: FraminghamPopulationStatistics and            *)
(* generate_population                                                     *)

\* proportions are held in thousandths
Mille == 1000
PropFemale == 532

\* self.__stats: per sex the proportion of the sex, the buckets of the
\* continuous variables and the proportions of the flags
FraminghamPopulationStatistics ==
    [female |->
        [prop |-> PropFemale,
         age  |-> [min |-> <<30, 40, 50, 60>>, max |-> <<40, 50, 60, 70>>,
                   prop |-> <<300, 400, 200, 100>>],
         SBP  |-> [min |-> <<100, 125, 150>>, max |-> <<125, 150, 180>>,
                   prop |-> <<200, 600, 200>>],
         tch  |-> [min |-> <<160, 190, 220>>, max |-> <<190, 220, 270>>,
                   prop |-> <<600, 200, 200>>],
         HDL  |-> [min |-> <<40, 50, 60>>, max |-> <<50, 60, 75>>,
                   prop |-> <<300, 500, 200>>],
         treated_for_BP |-> 118, smoking |-> 342, diabetes |-> 38],
     male |->
        [prop |-> Mille - PropFemale,
         age  |-> [min |-> <<30, 40, 50, 60>>, max |-> <<40, 50, 60, 70>>,
                   prop |-> <<300, 400, 200, 100>>],
         SBP  |-> [min |-> <<100, 125, 150>>, max |-> <<125, 150, 180>>,
                   prop |-> <<200, 600, 200>>],
         tch  |-> [min |-> <<160, 190, 220>>, max |-> <<190, 220, 270>>,
                   prop |-> <<600, 200, 200>>],
         HDL  |-> [min |-> <<30, 40, 50>>, max |-> <<40, 50, 65>>,
                   prop |-> <<300, 500, 200>>],
         treated_for_BP |-> 101, smoking |-> 352, diabetes |-> 65]]

\* the order of pop_stats.stats.items()
StatsOrder == <<"female", "male">>

\* round(num / den) for num >= 0: to the nearest integer, a tie to the even
\* one (the builtin round on a float and the round of a Series alike)
py_round(num, den) ==
    LET q == num \div den
        r == num % den
    IN  IF 2 * r > den \/ (2 * r = den /\ q % 2 = 1) THEN q + 1 ELSE q

\* the double 0.532 exceeds 532/1000 by PropExcess / (Mille * 2^53), and the
\* double 1 - 0.532 falls short of 468/1000 by as much
PropExcess == 256
prop_excess(sex) == IF sex = "female" THEN PropExcess ELSE -PropExcess

\* n_sub_sex = round(sex_stats.pop("prop") * n_sub), the product being a
\* double. The ratio prop * n / Mille is either a tie or at least 1/250 away
\* from one, so the double product rounds as the ratio does unless the ratio
\* is a tie q + 1/2; there the product is off the tie by n * excess /
\* (Mille * 2^53), and it is stored as a double on that side of the tie once
\* this exceeds half a unit in the last place of q + 1/2, 2^(ilog2(q) - 53).
n_sub_sex(sex, n) ==
    LET num == FraminghamPopulationStatistics[sex].prop * n
        q   == num \div Mille
        tie == 2 * (num % Mille) = Mille
        x   == prop_excess(sex)
    IN  IF tie /\ n * Abs(x) > Mille * 2 ^ ilog2(q)
        THEN IF x > 0 THEN q + 1 ELSE q
        ELSE py_round(num, Mille)

\* sex_samplings["sex"] = [sex] * n_sub_sex
sex_column(sex, k) == [i \in 1..k |-> sex]

MaxSub == 130

\* generate_population(n_sub) up to the for loop: the generator, the
\* statistics and the empty frame
Generate ==
    /\ gpc = "idle"
    /\ \E n \in 0..MaxSub : n_sub' = n
    /\ todo' = StatsOrder
    /\ population' = <<>>
    /\ gpc' = "loop"
    /\ UNCHANGED <<pc, underlying, shape, layout, data, columns_map, result,
                   baseline_risk, mean_risk, betas, spc, raw, built, scored>>

\* one pass of the for loop: the rows of one sex are sampled and appended
Iterate ==
    /\ gpc = "loop"
    /\ todo # <<>>
    /\ population' = population \o sex_column(Head(todo), n_sub_sex(Head(todo), n_sub))
    /\ todo' = Tail(todo)
    /\ UNCHANGED <<pc, underlying, shape, layout, data, columns_map, result,
                   baseline_risk, mean_risk, betas, spc, raw, built, scored,
                   gpc, n_sub>>

\* return population
ReturnPopulation ==
    /\ gpc = "loop"
    /\ todo = <<>>
    /\ gpc' = "returned"
    /\ UNCHANGED <<pc, underlying, shape, layout, data, columns_map, result,
                   baseline_risk, mean_risk, betas, spc, raw, built, scored,
                   n_sub, todo, population>>

PopulationNext == Generate \/ Iterate \/ ReturnPopulation

PopulationSpec == Init /\ [][PopulationNext]_vars

---------------------------------------------------------------------------
(* One row of the population, from the draws of the generator to the score *)

\* the columns of the population frame
PopulationColumns == <<"age", "sex", "SBP_nt", "SBP_t", "tch", "HDL", "smoking", "diabetes">>

\* rng.uniform(low=0, high=1, size=n_sub_sex) takes values in [0, 1); the
\* draws followed are the fractions u / UDen, u in UValues
UDen == 3
UValues == 0..(UDen - 1)

\* rng.choice(range(len(p)), p=p): the indexes of positive probability
choice_rows(p) == {i \in DOMAIN p : p[i] > 0}

\* rng.choice([True, False], p=[p, 1 - p])
choice_flags(p) == {b \in BOOLEAN : IF b THEN p > 0 ELSE Mille - p > 0}

\* round(min[row] + u * (max[row] - min[row])) for the bucket row and the
\* uniform draw u
bucket_sample(st, row, u) ==
    py_round(st.min[row] * UDen + u * (st.max[row] - st.min[row]), UDen)

\* what the generator draws for one index of sex_samplings
Draws(sex) ==
    LET st == FraminghamPopulationStatistics[sex]
    IN  [treated  : choice_flags(st.treated_for_BP),
         SBP      : choice_rows(st.SBP.prop) \X UValues,
         age      : choice_rows(st.age.prop) \X UValues,
         tch      : choice_rows(st.tch.prop) \X UValues,
         HDL      : choice_rows(st.HDL.prop) \X UValues,
         smoking  : choice_flags(st.smoking),
         diabetes : choice_flags(st.diabetes)]

\* the 0 written for the blood pressure that does not apply is an int; its
\* column holds it as an int when every entry of the column is 0 and as a
\* float otherwise
ZeroCells == {PyInt(0), PyFloat(0)}

\* the row of sex_samplings at one index, given the draws d for that index
sex_samplings_row(sex, d, zero) ==
    LET st  == FraminghamPopulationStatistics[sex]
        sbp == PyFloat(bucket_sample(st.SBP, d.SBP[1], d.SBP[2]) * Unit)
    IN  [sex      |-> PyStr(Chars(sex)),
         SBP_nt   |-> IF ~d.treated THEN sbp ELSE zero,
         SBP_t    |-> IF d.treated THEN sbp ELSE zero,
         age      |-> PyFloat(bucket_sample(st.age, d.age[1], d.age[2]) * Unit),
         tch      |-> PyFloat(bucket_sample(st.tch, d.tch[1], d.tch[2]) * Unit),
         HDL      |-> PyFloat(bucket_sample(st.HDL, d.HDL[1], d.HDL[2]) * Unit),
         smoking  |-> PyBool(d.smoking),
         diabetes |-> PyBool(d.diabetes)]

\* the model is constructed and a population is about to be generated
RowInit ==
    /\ pc = "idle"
    /\ underlying = <<>>
    /\ shape = "list"
    /\ layout = "canonical"
    /\ data = PyList(<<>>)
    /\ columns_map = PyNone
    /\ result = Pending
    /\ baseline_risk = BaselineRisk0
    /\ mean_risk = MeanRisk0
    /\ betas = Betas0
    /\ spc = "draw"
    /\ raw = NoRaw
    /\ built = NoBuilt
    /\ scored = NaN
    /\ gpc = "idle"
    /\ n_sub = 0
    /\ todo = <<>>
    /\ population = <<>>

\* a row of the generated population reaches the template under the
\* identity column map
SampleRow ==
    /\ spc = "draw"
    /\ \E sex \in DOMAIN FraminghamPopulationStatistics :
          \E d \in Draws(sex), zero \in ZeroCells :
              raw' = sex_samplings_row(sex, d, zero)
    /\ spc' = "raw"
    /\ UNCHANGED <<pc, underlying, shape, layout, data, columns_map, result,
                   baseline_risk, mean_risk, betas, built, scored, gen>>

RowNext == SampleRow \/ Validate \/ Score

RowSpec == RowInit /\ [][RowNext]_vars

---------------------------------------------------------------------------
(* Properties *)

Done == pc = "done"

\* the call passes the argument check, the cast and the column resolution
ReachesRows(d, cm) ==
    /\ is_dict(cm)
    /\ normalize(d, cm).ok
    /\ resolve(normalize(d, cm).frame, cm).ok

\* the keyword arguments the template gets for row i of the call
RowRecord(d, cm, i) ==
    zip_dict(cm.values, normalize(d, cm).frame.rows[i],
             resolve(normalize(d, cm).frame, cm).indexes)

RowCount(d, cm) == Len(normalize(d, cm).frame.rows)

InvalidArgument == Raise("ValueError", "forward", 0)
ColumnNotFound  == Raise("KeyError", "get_loc", 0)

\* C1: a call whose columns_map is not a dict (None, a list of names) raises
\* the ValueError of forward, and no row has been handed to the template,
\* whatever the shape of data.
C1_NonMappingRejected ==
    (Done /\ columns_map.ty # "dict") => result = InvalidArgument

C1_Witness ==
    /\ Done
    /\ columns_map = PyNames(Canonical)
    /\ shape = "ndarray"
    /\ underlying = <<male_subject, female_subject>>
    /\ result = InvalidArgument

\* C2 (as claimed): a call whose columns_map is the empty dict raises the
\* ValueError of forward before any row is handed to the template.
C2_EmptyMapRejected ==
    (Done /\ columns_map = empty_col_map) => result = InvalidArgument

\* C3 (as claimed): a valid call on n >= 0 rows returns n scores, the i-th
\* being the score of the record built from row i.
C3_OneScorePerRow ==
    (/\ Done
     /\ ReachesRows(data, columns_map)
     /\ \A i \in 1..RowCount(data, columns_map) :
            FraminghamSubject(RowRecord(data, columns_map, i)).ok)
    => /\ ~result.raised
       /\ Len(result.scores) = RowCount(data, columns_map)
       /\ \A i \in 1..RowCount(data, columns_map) :
            result.scores[i] =
                _compute_single(FraminghamSubject(RowRecord(data, columns_map, i)).sub)

\* C4: when the record of some row fails the schema (an age of 30 or less,
\* among others), the call raises the ValidationError and returns no score,
\* wherever the row is and however many valid rows come before it.
C4_FailFast ==
    (/\ Done
     /\ ReachesRows(data, columns_map)
     /\ \E i \in 1..RowCount(data, columns_map) :
            ~FraminghamSubject(RowRecord(data, columns_map, i)).ok)
    => /\ result.raised
       /\ result.exc = "ValidationError"
       /\ result.scores = <<>>
       /\ ~FraminghamSubject(RowRecord(data, columns_map, result.built)).ok
       /\ \A i \in 1..(result.built - 1) :
            FraminghamSubject(RowRecord(data, columns_map, i)).ok

C4_Witness ==
    /\ Done
    /\ columns_map = framingham_col_map2
    /\ shape = "list"
    /\ underlying = <<male_subject, young_subject>>
    /\ result = Raise("ValidationError", "template", 2)

\* what the boolean fields accept, and the boolean each accepted value becomes
CoercedTrue(c) ==
    \/ c.ty = "bool" /\ c.n = 1
    \/ c.ty = "int" /\ c.n = 1
    \/ c = PyFloat(Unit)
    \/ c.ty = "str" /\ lower(c.s) \in {Chars(w) : w \in {"1", "on", "t", "true", "y", "yes"}}
CoercedFalse(c) ==
    \/ c.ty = "bool" /\ c.n = 0
    \/ c.ty = "int" /\ c.n = 0
    \/ c = PyFloat(0)
    \/ c.ty = "str" /\ lower(c.s) \in {Chars(w) : w \in {"0", "off", "f", "false", "n", "no"}}

\* C5 (as claimed): smoking and diabetes are accepted only when the raw value
\* is a bool; a number or a text is rejected.
C5_StrictBoolean ==
    (spc = "validated") =>
        \A f \in BoolFields : raw[f].ty # "bool" => f \in built.errors

\* C5 (amended): smoking and diabetes are accepted exactly when the raw value
\* is a bool, the number 0 or 1 (int or float), or one of the words 0, off, f,
\* false, n, no, 1, on, t, true, y, yes in any letter case; an accepted value
\* becomes the corresponding boolean and any other number or text is
\* rejected.
C5_CoercedBoolean ==
    (spc = "validated") =>
        /\ \A f \in BoolFields :
              (f \in built.errors) <=> ~(CoercedTrue(raw[f]) \/ CoercedFalse(raw[f]))
        /\ built.ok => \A f \in BoolFields : built.sub[f] = PyBool(CoercedTrue(raw[f]))

C5_Witness ==
    /\ spc = "validated"
    /\ raw.smoking = PyStr(Chars("YES"))
    /\ raw.diabetes = PyInt(1)
    /\ built.ok
    /\ built.sub.smoking = PyBool(TRUE)
    /\ built.sub.diabetes = PyBool(TRUE)

\* C6: for a DataFrame, a key of columns_map that labels no column makes the
\* call raise the KeyError of the column lookup, before any row is handed to
\* the template.
C6_ColumnNotFound ==
    (/\ Done
     /\ data.ty = "DataFrame"
     /\ columns_map.ty = "dict"
     /\ \E i \in DOMAIN columns_map.keys : ~has_loc(data.columns, columns_map.keys[i]))
    => result = ColumnNotFound

C6_Witness ==
    /\ Done
    /\ data.ty = "DataFrame"
    /\ layout = "table"
    /\ columns_map = missing_col_map
    /\ underlying = <<male_subject, female_subject>>
    /\ result = ColumnNotFound

\* C7 (as claimed): a record that passed validation and is scored has
\* HDL > 0, total cholesterol > 0 and both blood pressures >= 0.
C7_PositiveCovariates ==
    (spc = "scored") =>
        /\ built.sub.HDL.n > 0
        /\ built.sub.tch.n > 0
        /\ built.sub.SBP_nt.n >= 0
        /\ built.sub.SBP_t.n >= 0

\* the calls that carry the row values rows in each shape, each with the
\* column map that names its columns
EquivalentCalls(rows) ==
    {<<make_data(rows, "list", "canonical"), framingham_col_map2>>,
     <<make_data(rows, "ndarray", "canonical"), framingham_col_map2>>,
     <<make_data(rows, "DataFrame", "canonical"), framingham_col_map2>>,
     <<make_data(rows, "DataFrame", "table"), framingham_col_map1>>}

\* C8 (as claimed): the outcome of a call does not depend on the shape in
\* which the same row values are given.
C8_ShapeIndependent ==
    (Done /\ <<data, columns_map>> \in EquivalentCalls(underlying)) =>
        \A c \in EquivalentCalls(underlying) :
            /\ forward(c[1], c[2]).raised = result.raised
            /\ forward(c[1], c[2]).scores = result.scores

Within(score, ref, tol) == ~score.nan /\ Abs(score.v - ref) <= tol

\* 0.1048, 0.1562 and 0.0001 of the test
Ref1048 == 104800
Ref1562 == 156200
Atol    == 100

\* C9 (as claimed): the male reference subject scores 0.1048 and the female
\* reference subject 0.1562, within 0.0001.
C9_AsClaimed ==
    (Done /\ ~result.raised) =>
        \A i \in DOMAIN underlying :
            /\ underlying[i] = male_subject => Within(result.scores[i], Ref1048, Atol)
            /\ underlying[i] = female_subject => Within(result.scores[i], Ref1562, Atol)

\* C9 (amended): the male reference subject scores 0.1562 and the female
\* reference subject 0.1048, within 0.0001, in every shape of data.
C9_ReferenceScores ==
    (Done /\ ~result.raised) =>
        /\ Len(result.scores) = Len(underlying)
        /\ \A i \in DOMAIN underlying :
            /\ underlying[i] = male_subject => Within(result.scores[i], Ref1562, Atol)
            /\ underlying[i] = female_subject => Within(result.scores[i], Ref1048, Atol)

C9_Witness ==
    /\ Done
    /\ shape = "ndarray"
    /\ columns_map = framingham_col_map2
    /\ underlying = <<male_subject, female_subject>>
    /\ ~result.raised
    /\ Within(result.scores[1], Ref1562, Atol)
    /\ Within(result.scores[2], Ref1048, Atol)

\* C10: a call leaves the caller's data and columns_map as they were, whether
\* it returns or raises, and the coefficient tables, baseline_risk and
\* mean_risk keep the values of the construction over any sequence of calls.
C10_NoSideEffect ==
    /\ [](betas = Betas0 /\ baseline_risk = BaselineRisk0 /\ mean_risk = MeanRisk0)
    /\ [][pc = "called" => (data' = data /\ columns_map' = columns_map)]_vars

C10_Witness ==
    /\ Done
    /\ shape = "list"
    /\ columns_map = framingham_col_map2
    /\ underlying = <<table_subject, male_subject>>
    /\ ~result.raised
    /\ data = PyList(underlying)

\* the number of rows of the population whose sex is s
SexCount(s) == Cardinality({i \in DOMAIN population : population[i] = s})

\* C11: for every n_sub the table generate_population(n_sub) returns has
\* exactly n_sub rows, round(n_sub * 0.532) of them female and
\* round(n_sub * (1 - 0.532)) of them male.
C11_PopulationCounts ==
    gpc = "returned" =>
        /\ Len(population) = n_sub
        /\ SexCount("female") = py_round(PropFemale * n_sub, Mille)
        /\ SexCount("male") = py_round((Mille - PropFemale) * n_sub, Mille)

\* what the claim lets a covariate of value v add to the linear predictor
Contribution(v, beta) ==
    CASE v.ty = "bool" /\ v.n = 1 -> Num(beta)
      [] v.ty = "bool" /\ v.n = 0 -> Num(0)
      [] v.ty # "bool" /\ isfinite(v) /\ v.n = 0 -> Num(0)
      [] v.ty # "bool" /\ isfinite(v) /\ v.n < 0 -> NaN
      [] v.ty # "bool" /\ ~isfinite(v) ->
            IF v = PyInf(1) /\ beta # 0 THEN Inf(IF beta > 0 THEN 1 ELSE -1) ELSE NaN
      [] OTHER -> Num(fpmul(np_log(IF v.ty = "int" THEN v.n * Unit ELSE v.n), beta))

\* the sum of the contributions cs
RECURSIVE SumOf(_)
SumOf(cs) == IF cs = <<>> THEN Num(0) ELSE Add(Head(cs), SumOf(Tail(cs)))

Predictor(sub) == lin_comb(sub, Len(BetaOrder))

\* C12: in the score of one subject every covariate of the coefficient table
\* of its sex adds beta * ln(v) when v is a nonzero number that is not a
\* bool, 0 when v is zero, beta when v is True and 0 when v is False; so a
\* subject one of whose SBP_nt / SBP_t is zero gets the SBP term of the other
\* alone and the score is computed without a logarithm of zero.
C12_LogRule ==
    (spc = "scored") =>
        LET sub == built.sub
            b   == betas[sub.sex]
            c(f) == Contribution(sub[f], b[f])
        IN  /\ Predictor(sub) =
                 SumOf(<<c("age"), c("tch"), c("HDL"), c("SBP_nt"), c("SBP_t"),
                         c("smoking"), c("diabetes")>>)
            /\ scored.nan = Predictor(sub).nan
            /\ (sub.SBP_nt.n = 0 /\ sub.SBP_t.n > 0) =>
                  /\ Term(sub.SBP_nt, b.SBP_nt) = Num(0)
                  /\ Term(sub.SBP_t, b.SBP_t) = Num(fpmul(np_log(sub.SBP_t.n), b.SBP_t))
            /\ (sub.SBP_t.n = 0 /\ sub.SBP_nt.n > 0) =>
                  /\ Term(sub.SBP_t, b.SBP_t) = Num(0)
                  /\ Term(sub.SBP_nt, b.SBP_nt) = Num(fpmul(np_log(sub.SBP_nt.n), b.SBP_nt))
            /\ (\A f \in FloatFields \ {"SBP_nt", "SBP_t"} : sub[f].n > 0)
               /\ ((sub.SBP_nt.n = 0 /\ sub.SBP_t.n > 0) \/ (sub.SBP_t.n = 0 /\ sub.SBP_nt.n > 0))
               => ~scored.nan

C12_Witness ==
    /\ spc = "scored"
    /\ built.sub.SBP_nt = PyFloat(0)
    /\ built.sub.SBP_t = PyFloat(125 * Unit)
    /\ raw.age = PyStr(<<"\\u0663", "\\u0661">>)
    /\ built.sub.smoking = PyBool(TRUE)
    /\ built.sub.diabetes = PyBool(FALSE)
    /\ \A f \in FloatFields \ {"SBP_nt", "SBP_t"} : built.sub[f].n > 0
    /\ ~scored.nan

\* the population made of the one row kw, and the identity column map
population_of(kw) == DataFrame(<<[j \in DOMAIN PopulationColumns |-> kw[PopulationColumns[j]]]>>,
                               PopulationColumns)
identity_col_map == PyDict(PopulationColumns, PopulationColumns)

\* C13: every row generate_population produces is accepted by the Framingham
\* subject schema: its age is strictly greater than 30, exactly one of
\* SBP_nt / SBP_t is nonzero, and scoring it under the identity column map
\* raises no validation error.
C13_GeneratedRowsValid ==
    (spc = "validated") =>
        /\ built.ok
        /\ raw.age.n > AgeGt * Unit
        /\ (raw.SBP_nt.n = 0) # (raw.SBP_t.n = 0)
        /\ ~forward(population_of(raw), identity_col_map).raised

===========================================================================
